---- MODULE Spec2Model ----
(***************************************************************************)
(* Model of the podcast transcript pipeline: podcast_collector.py          *)
(* (transcribe_url, process_feed, collect_transcripts), main.py (main),    *)
(* payload_builder.py (build_payload), notifier.py (send_payload) and      *)
(* weaviate_config.py (ensure_schema_exists, store_podcast_transcript).    *)
(*                                                                         *)
(* Texts are sequences of characters ("a" is a letter, " " a blank), so    *)
(* that whitespace splitting is computed.  A feed URL is the sequence of   *)
(* its "/"-separated segments.                                             *)
(* The collaborators (feedparser, Deepgram, requests, Weaviate) are        *)
(* nondeterministic: every action draws the collaborator's answer with \E. *)
(***************************************************************************)
EXTENDS Integers, Sequences, FiniteSets, TLC

\* ---------------------------------------------------------------- bounds
MaxFeeds == 2
MaxEnclosures == 2
MaxObjects == 2
MaxEnsure == 2

\* ------------------------------------------------------------ value sets
None == <<>>

\* no exception has left main
NoException == "none"

SeqsUpTo(S, n) == UNION {[1..k -> S] : k \in 0..n}

\* the texts the provider can return: empty, one word, blank, two words
Texts == {<<>>, <<"a">>, <<" ">>, <<"a", " ", "a">>}

\* the word lists the provider can return with a text: one or two words
WordLists == {<<"w">>, <<"w", "w">>}

FeedUrls == {<<"feedA">>, <<"host", "feedB">>}

Enclosures == {[href |-> "ep.mp3", type |-> "audio/mpeg"],
               [href |-> "cover.jpg", type |-> "image/jpeg"]}

\* rss.entries[0] as feedparser delivers it; only the first entry is read
\* an entry may lack a title (episode.title then raises AttributeError)
NoTitle == "<missing>"

Entries == [title : {"ep1", NoTitle}, enclosures : SeqsUpTo(Enclosures, MaxEnclosures)]

\* what feedparser.parse does: raise, or a feed with zero or one+ entries
RssOutcomes == [raises : {TRUE}, entries : {<<>>}]
               \cup [raises : {FALSE}, entries : SeqsUpTo(Entries, 1)]

\* what the Deepgram call does: raise, a response without results, or a
\* response with a transcript and a word list
Responses == [kind : {"raise", "no_results"}, transcript : {<<>>}, words : {<<>>}]
             \cup [kind : {"ok"}, transcript : Texts, words : WordLists]

\* what requests.post / response.json() do
PostOutcomes == [kind : {"conn_error"}, status : {0}, json : {FALSE}]
                \cup [kind : {"response"}, status : {200, 500}, json : BOOLEAN]

VARIABLES
    apiKey,        \* DEEPGRAM_API_KEY is set
    feeds,         \* the input list of feed URLs
    pc,            \* position of main / collect_transcripts
    index,         \* number of feeds the loop has completed
    all_results,   \* collect_transcripts' accumulator
    cur,           \* process_feed's locals while awaiting transcribe_url
    envlog,        \* what the collaborators answered for each feed, in order
    payload,       \* main's payload
    posts,         \* the bodies handed to requests.post, in order
    logged,        \* tags of the log lines written
    raised,        \* the exception that left main, or NoException
    objects,       \* the vector store's PodcastTranscript objects
    lastStore,     \* the last store_podcast_transcript call and its outcome
    collections,   \* the vector store's collections, in creation order
    ensureLog      \* the ensure_schema_exists calls made, in order

vars == <<apiKey, feeds, pc, index, all_results, cur, envlog, payload, posts,
          logged, raised, objects, lastStore, collections, ensureLog>>

pipeVars == <<apiKey, feeds, pc, index, all_results, cur, envlog, payload,
              posts, logged, raised>>

storeVars == <<objects, lastStore>>

schemaVars == <<collections, ensureLog>>

\* ------------------------------------------------------- pure operators

\* str.split(): the maximal runs of non-whitespace characters
WhitespaceTokens(t) ==
    Cardinality({i \in 1..Len(t) : t[i] # " " /\ (i = 1 \/ t[i-1] = " ")})

\* transcribe_url: the (transcript, metadata) pair it returns
transcribe_url(resp) ==
    IF resp.kind # "ok"
    THEN [transcript |-> <<>>, metadata |-> <<>>]
    ELSE [transcript |-> resp.transcript,
          metadata |-> [duration |-> 12, channels |-> 1,
                        words |-> Len(resp.words)]]

\* process_feed without the `if transcript` test
FeedResults_unchecked(feed_url, episode_title, episode_url, tr) ==
    << [transcript |-> tr.transcript,
        metadata |-> [title |-> episode_title, feed_url |-> feed_url,
                      episode_url |-> episode_url] @@ tr.metadata] >>

\* process_feed, lines 111-122: the list it returns after transcribe_url
FeedResults(feed_url, episode_title, episode_url, tr) ==
    IF tr.transcript # <<>>
    THEN << [transcript |-> tr.transcript,
             metadata |-> [title |-> episode_title, feed_url |-> feed_url,
                           episode_url |-> episode_url] @@ tr.metadata] >>
    ELSE <<>>

\* all_results = feed_results
Extend_overwrite(results, feed_results) == feed_results

\* feed_results + all_results
Extend_prepend(results, feed_results) == feed_results \o results

\* all_results.extend(feed_results)
Extend(results, feed_results) == results \o feed_results

\* the list comprehension over reversed(results)
Transcripts_reversed(results) ==
    [i \in 1..Len(results) |-> results[Len(results) + 1 - i].transcript]

\* main: transcripts = [result['transcript'] for result in results]
Transcripts(results) == [i \in 1..Len(results) |-> results[i].transcript]

build_payload(transcripts) == [transcripts |-> transcripts]

\* main without the empty-result stop
NoResults_never(results) == FALSE

\* main: `if not results`
NoResults(results) == results = <<>>

\* the loop going on two places after a feed
NextIndex_skip(i) == i + 2

\* `for index, feed in enumerate(feeds, 1)`: the loop goes on to the next feed
NextIndex(i) == i + 1

\* ----------------------------------------------------------- pipeline
NoCur == [feed_url |-> <<>>, episode_url |-> "", episode_title |-> ""]

NoStore == [called |-> FALSE, creates |-> 0, created |-> FALSE,
            ret |-> None, raised |-> FALSE, id |-> None]

Init ==
    /\ apiKey \in BOOLEAN
    /\ feeds \in SeqsUpTo(FeedUrls, MaxFeeds)
    /\ pc = "main_start"
    /\ index = 0
    /\ all_results = <<>>
    /\ cur = NoCur
    /\ envlog = <<>>
    /\ payload = None
    /\ posts = <<>>
    /\ logged = {}
    /\ raised = NoException
    /\ objects = <<>>
    /\ lastStore = NoStore
    /\ collections = <<>>
    /\ ensureLog = <<>>

\* main calls collect_transcripts(feeds); the accumulator starts empty
MainStart ==
    /\ pc = "main_start"
    /\ pc' = "loop"
    /\ index' = 0
    /\ all_results' = <<>>
    /\ UNCHANGED <<apiKey, feeds, cur, envlog, payload, posts, logged, raised>>
    /\ UNCHANGED storeVars
    /\ UNCHANGED schemaVars

\* the feed contributes nothing: process_feed returned [] before transcribing
SkipFeed(read, tag) ==
    /\ all_results' = Extend(all_results, <<>>)
    /\ index' = NextIndex(index)
    /\ envlog' = Append(envlog, [pos |-> index + 1, feed |-> feeds[index + 1],
                                 read |-> read, audio |-> FALSE,
                                 called |-> FALSE, stt |-> "none",
                                 text |-> <<>>, words |-> <<>>])
    /\ logged' = logged \cup {tag}
    /\ pc' = "loop"
    /\ cur' = NoCur

\* one loop iteration up to the await of transcribe_url
ProcessFeedRead ==
    /\ pc = "loop"
    /\ index < Len(feeds)
    /\ IF ~apiKey
       THEN SkipFeed("no_key", "feed_error")
       ELSE \E rss \in RssOutcomes :
              IF rss.raises
              THEN SkipFeed("parse_error", "feed_error")
              ELSE IF rss.entries = <<>>
              THEN SkipFeed("no_entries", "no_entries")
              ELSE IF rss.entries[1].enclosures = <<>>
              THEN SkipFeed("no_enclosure", "feed_error")
              ELSE IF rss.entries[1].title = NoTitle
              THEN SkipFeed("no_title", "feed_error")
              ELSE /\ cur' = [feed_url |-> feeds[index + 1],
                              episode_url |-> rss.entries[1].enclosures[1].href,
                              episode_title |-> rss.entries[1].title]
                   /\ envlog' = Append(envlog,
                         [pos |-> index + 1, feed |-> feeds[index + 1],
                          read |-> "candidate",
                          audio |-> \E i \in DOMAIN rss.entries[1].enclosures :
                                      rss.entries[1].enclosures[i].type = "audio/mpeg",
                          called |-> FALSE, stt |-> "none",
                          text |-> <<>>, words |-> <<>>])
                   /\ pc' = "transcribing"
                   /\ UNCHANGED <<index, all_results, logged>>
    /\ UNCHANGED <<apiKey, feeds, payload, posts, raised>>
    /\ UNCHANGED storeVars
    /\ UNCHANGED schemaVars

\* transcribe_url returns; process_feed builds its result; the loop extends
ProcessFeedTranscribe ==
    /\ pc = "transcribing"
    /\ \E resp \in Responses :
         LET tr == transcribe_url(resp)
             n  == Len(envlog)
         IN /\ all_results' = Extend(all_results,
                  FeedResults(cur.feed_url, cur.episode_title, cur.episode_url, tr))
            /\ envlog' = [envlog EXCEPT ![n] =
                  [@ EXCEPT !.called = TRUE, !.stt = resp.kind,
                            !.text = resp.transcript, !.words = resp.words]]
            /\ logged' = IF resp.kind # "ok" THEN logged \cup {"transcribe_error"}
                         ELSE IF resp.transcript = <<>>
                              THEN logged \cup {"no_transcript"}
                              ELSE logged
    /\ index' = NextIndex(index)
    /\ cur' = NoCur
    /\ pc' = "loop"
    /\ UNCHANGED <<apiKey, feeds, payload, posts, raised>>
    /\ UNCHANGED storeVars
    /\ UNCHANGED schemaVars

\* collect_transcripts returns; main stops on an empty result, or logs the
\* summary and builds the payload
CollectReturn ==
    /\ pc = "loop"
    /\ index = Len(feeds)
    /\ IF NoResults(all_results)
       THEN /\ logged' = logged \cup {"no_transcripts"}
            /\ pc' = "done"
            /\ UNCHANGED payload
       ELSE /\ payload' = build_payload(Transcripts(all_results))
            /\ pc' = "send"
            /\ UNCHANGED logged
    /\ UNCHANGED <<apiKey, feeds, index, all_results, cur, envlog, posts, raised>>
    /\ UNCHANGED storeVars
    /\ UNCHANGED schemaVars

\* send_payload(endpoint, payload), then the end of main
SendPayload ==
    /\ pc = "send"
    /\ posts' = Append(posts, payload)
    /\ \E out \in PostOutcomes :
         IF out.kind = "conn_error"
         THEN /\ raised' = "ConnectionError"
              /\ logged' = logged \cup {"main_error"}
              /\ pc' = "raised"
         ELSE IF ~out.json
         THEN /\ raised' = "JSONDecodeError"
              /\ logged' = logged \cup {"main_error"}
              /\ pc' = "raised"
         ELSE /\ raised' = NoException
              /\ logged' = logged \cup {IF out.status = 200 THEN "status_ok"
                                                             ELSE "status_error"}
              /\ pc' = "done"
    /\ UNCHANGED <<apiKey, feeds, index, all_results, cur, envlog, payload>>
    /\ UNCHANGED storeVars
    /\ UNCHANGED schemaVars

Next ==
    \/ MainStart
    \/ ProcessFeedRead
    \/ ProcessFeedTranscribe
    \/ CollectReturn
    \/ SendPayload

Spec == Init /\ [][Next]_vars

\* asyncio.run(main()) drives the one coroutine until it returns or raises:
\* every awaited or blocking collaborator call comes back, with an answer or
\* an exception, so a step that can be taken is taken
FairSpec == Spec /\ WF_vars(Next)

\* ------------------------------------------------------------ the store
MetaKeys == {"title", "duration", "words", "episode_url", "feed_url",
             "podcast_name", "published_date"}

MetaValue(k, feed_url) ==
    CASE k = "title" -> "ep1"
      [] k = "duration" -> 12
      [] k = "words" -> 1
      [] k = "episode_url" -> "ep.mp3"
      [] k = "feed_url" -> feed_url
      [] k = "podcast_name" -> "show"
      [] k = "published_date" -> "2024-01-01"

\* the dictionaries a caller can pass: any of the keys may be missing
MetaDicts == {[k \in K |-> MetaValue(k, f)] : K \in SUBSET MetaKeys, f \in FeedUrls}

StoreTexts == {<<"a">>, <<"a", " ">>}

TranscriptData ==
    {[k \in K |-> IF k = "transcript" THEN t ELSE m] :
        K \in SUBSET {"transcript", "metadata"}, m \in MetaDicts, t \in StoreTexts}

\* client.data_object.create: an identifier, an answer without one, or raise
CreateOutcomes == {"created", "no_id", "error"}

\* dict.get(key, default)
Get(d, k, default) == IF k \in DOMAIN d THEN d[k] ELSE default

\* feed_url.split("/")[-1]
LastSegment(url) == url[Len(url)]

\* the subscripts of lines 226-234 all succeed
HasRequiredKeys(td) ==
    /\ {"transcript", "metadata"} \subseteq DOMAIN td
    /\ {"title", "duration", "words", "episode_url", "feed_url"}
          \subseteq DOMAIN td["metadata"]

data_object(td) ==
    LET m == td["metadata"]
    IN [transcript |-> td["transcript"],
        title |-> m["title"],
        duration |-> m["duration"],
        wordCount |-> m["words"],
        episodeUrl |-> m["episode_url"],
        feedUrl |-> m["feed_url"],
        podcastName |-> Get(m, "podcast_name", LastSegment(m["feed_url"])),
        publishedDate |-> Get(m, "published_date", "None")]

NewId(n) == <<"uuid", n>>

\* store_podcast_transcript without its try/except
store_podcast_transcript_uncaught(td, out, id) ==
    IF ~HasRequiredKeys(td)
    THEN [called |-> TRUE, creates |-> 0, created |-> FALSE, id |-> None,
          ret |-> None, raised |-> TRUE]
    ELSE IF out = "created"
    THEN [called |-> TRUE, creates |-> 1, created |-> TRUE, id |-> id,
          ret |-> id, raised |-> FALSE]
    ELSE [called |-> TRUE, creates |-> 1, created |-> FALSE, id |-> None,
          ret |-> None, raised |-> TRUE]

\* store_podcast_transcript as a function of its argument, the store's
\* answer and the identifier the store would generate
store_podcast_transcript(td, out, id) ==
    IF ~HasRequiredKeys(td)
    THEN [called |-> TRUE, creates |-> 0, created |-> FALSE, id |-> None,
          ret |-> None, raised |-> FALSE]
    ELSE IF out = "created"
    THEN [called |-> TRUE, creates |-> 1, created |-> TRUE, id |-> id,
          ret |-> id, raised |-> FALSE]
    ELSE [called |-> TRUE, creates |-> 1, created |-> FALSE, id |-> None,
          ret |-> None, raised |-> FALSE]

StoreInit ==
    /\ apiKey = TRUE
    /\ feeds = <<>>
    /\ pc = "store"
    /\ index = 0
    /\ all_results = <<>>
    /\ cur = NoCur
    /\ envlog = <<>>
    /\ payload = None
    /\ posts = <<>>
    /\ logged = {}
    /\ raised = NoException
    /\ objects = <<>>
    /\ lastStore = NoStore
    /\ collections = <<>>
    /\ ensureLog = <<>>

StorePodcastTranscript ==
    /\ pc = "store"
    /\ Len(objects) < MaxObjects
    /\ \E td \in TranscriptData, out \in CreateOutcomes :
         LET r == store_podcast_transcript(td, out, NewId(Len(objects) + 1))
         IN /\ lastStore' = r
            /\ objects' = IF r.created THEN Append(objects, data_object(td))
                          ELSE objects
    /\ UNCHANGED pipeVars
    /\ UNCHANGED schemaVars

StoreNext == StorePodcastTranscript

StoreSpec == StoreInit /\ [][StoreNext]_vars

\* ----------------------------------------------------------- the schema
\* the two collections of ensure_schema_exists, in the order it handles them
SchemaNames == <<"Email", "PodcastTranscript">>

\* the collections a store can hold before the first call: each of the two,
\* with the fixed property layout or another one, and a foreign collection
PriorNames == <<"Email", "Other", "PodcastTranscript">>

Layouts == {"fixed", "legacy"}

\* the store states a run can start from: any subset of PriorNames, each
\* name at most once
PriorCollections ==
    {SelectSeq([i \in 1..Len(PriorNames) |-> [name |-> PriorNames[i], layout |-> f[i]]],
               LAMBDA c : c.layout # "absent") :
        f \in [1..Len(PriorNames) -> Layouts \cup {"absent"}]}

\* client.collections.list_all(): the names of the collections
list_all(colls) == {colls[i].name : i \in DOMAIN colls}

\* client.collections.create(name=...): the store refuses a name it has,
\* and can fail (ok = FALSE) for reasons of its own
create(colls, name, ok) ==
    IF ok /\ name \notin list_all(colls)
    THEN [collections |-> Append(colls, [name |-> name, layout |-> "fixed"]),
          raised |-> FALSE]
    ELSE [collections |-> colls, raised |-> TRUE]

\* one `if name not in existing_collections: create(name)` of the body,
\* applied to the outcome r of what came before it
EnsureOne(r, existing, name, ok) ==
    IF r.raised \/ name \in existing
    THEN r
    ELSE LET c == create(r.collections, name, ok)
         IN [r EXCEPT !.collections = c.collections,
                      !.creates = Append(@, name),
                      !.raised = c.raised]

\* the body without the `not in existing_collections` tests
ensure_schema_exists_unguarded(colls, listOk, createOk) ==
    IF ~listOk
    THEN [before |-> colls, collections |-> colls, listed |-> FALSE,
          creates |-> <<>>, raised |-> TRUE]
    ELSE EnsureOne(
           EnsureOne([before |-> colls, collections |-> colls, listed |-> TRUE,
                      creates |-> <<>>, raised |-> FALSE],
                     {}, SchemaNames[1], createOk[1]),
           {}, SchemaNames[2], createOk[2])

\* ensure_schema_exists as a function of the store's collections and of the
\* store's answers: the collections after it, the create calls it made,
\* whether list_all answered and whether it raised
ensure_schema_exists(colls, listOk, createOk) ==
    IF ~listOk
    THEN [before |-> colls, collections |-> colls, listed |-> FALSE,
          creates |-> <<>>, raised |-> TRUE]
    ELSE LET existing == list_all(colls)
         IN EnsureOne(
              EnsureOne([before |-> colls, collections |-> colls, listed |-> TRUE,
                         creates |-> <<>>, raised |-> FALSE],
                        existing, SchemaNames[1], createOk[1]),
              existing, SchemaNames[2], createOk[2])

SchemaInit ==
    /\ apiKey = TRUE
    /\ feeds = <<>>
    /\ pc = "schema"
    /\ index = 0
    /\ all_results = <<>>
    /\ cur = NoCur
    /\ envlog = <<>>
    /\ payload = None
    /\ posts = <<>>
    /\ logged = {}
    /\ raised = NoException
    /\ objects = <<>>
    /\ lastStore = NoStore
    /\ collections \in PriorCollections
    /\ ensureLog = <<>>

EnsureSchemaExists ==
    /\ pc = "schema"
    /\ Len(ensureLog) < MaxEnsure
    /\ \E listOk \in BOOLEAN, createOk \in [1..2 -> BOOLEAN] :
         LET r == ensure_schema_exists(collections, listOk, createOk)
         IN /\ collections' = r.collections
            /\ ensureLog' = Append(ensureLog, r)
    /\ UNCHANGED pipeVars
    /\ UNCHANGED storeVars

SchemaNext == EnsureSchemaExists

SchemaSpec == SchemaInit /\ [][SchemaNext]_vars

\* ------------------------------------------------------------ properties

\* collect_transcripts has returned to main
CollectionDone == pc \in {"send", "done", "raised"}

\* feed i was read, transcribed, and the provider returned non-empty text
Succeeded(i) ==
    /\ envlog[i].read = "candidate"
    /\ envlog[i].called
    /\ envlog[i].stt = "ok"
    /\ envlog[i].text # <<>>

\* feed i was read and its transcription call raised or came back empty
TranscriptionFailed(i) ==
    /\ envlog[i].read = "candidate"
    /\ envlog[i].called
    /\ (envlog[i].stt # "ok" \/ envlog[i].text = <<>>)

\* the (feed URL, text) pairs of the feeds 1..n that succeeded, in input order
RECURSIVE ExpectedUpTo(_)
ExpectedUpTo(n) ==
    IF n = 0 THEN <<>>
    ELSE IF Succeeded(n)
         THEN Append(ExpectedUpTo(n - 1), <<feeds[n], envlog[n].text>>)
         ELSE ExpectedUpTo(n - 1)

\* the (feed URL, text) pairs of the accumulated records
Collected ==
    [i \in 1..Len(all_results) |->
        <<all_results[i].metadata.feed_url, all_results[i].transcript>>]

\* the loop has finished the iteration of every feed it has started
BetweenFeeds == pc # "transcribing"

\* C1: when collection has returned and, of the feeds the loop handled,
\* exactly one feed k had a failing transcription call while every other one
\* succeeded, then all N feeds were handled (those after k included) and the
\* result holds exactly N-1 records, one for each feed other than k.
C1_FailureIsolation ==
    (CollectionDone /\ envlog # <<>>) =>
        \A k \in DOMAIN envlog :
            (/\ TranscriptionFailed(k)
             /\ \A j \in DOMAIN envlog \ {k} : Succeeded(j))
            => /\ Len(envlog) = Len(feeds)
               /\ index = Len(feeds)
               /\ Len(all_results) = Len(feeds) - 1
               /\ \A j \in 1..Len(feeds) \ {k} :
                     LET r == all_results[IF j < k THEN j ELSE j - 1]
                     IN /\ r.metadata.feed_url = feeds[j]
                        /\ r.transcript = envlog[j].text

\* two feeds, the first fails in transcription, the second is still
\* processed and is the only record
C1_Witness ==
    /\ CollectionDone
    /\ Len(feeds) = 2
    /\ Len(envlog) = 2
    /\ TranscriptionFailed(1)
    /\ Succeeded(2)
    /\ Len(all_results) = 1

\* C2: at every point of the loop and at return, the accumulated records are
\* the input sequence restricted to the feeds that succeeded so far, in input
\* order, one record per such input position.
C2_OrderPreservation ==
    /\ BetweenFeeds => Collected = ExpectedUpTo(Len(envlog))
    /\ ~BetweenFeeds => Collected = ExpectedUpTo(Len(envlog) - 1)
    /\ Len(all_results) <= index

\* two feeds succeeded with different texts and both records are there
C2_Witness ==
    /\ CollectionDone
    /\ Len(all_results) = 2
    /\ all_results[1].transcript # all_results[2].transcript
    /\ Succeeded(1) /\ Succeeded(2)

\* C3: every record has a non-empty transcript and stems from a feed whose
\* transcription call returned that non-empty text; a feed whose call raised
\* or returned an empty transcript has no record.
C3_RecordOnlyOnSuccess ==
    /\ \A i \in DOMAIN all_results :
          /\ all_results[i].transcript # <<>>
          /\ \E j \in DOMAIN envlog :
                /\ Succeeded(j)
                /\ envlog[j].text = all_results[i].transcript
                /\ feeds[j] = all_results[i].metadata.feed_url
    /\ Len(all_results) = Cardinality({j \in DOMAIN envlog : Succeeded(j)})

\* a run in which one call raised, one returned empty text, and no record exists
C3_Witness ==
    /\ CollectionDone
    /\ Len(envlog) = 2
    /\ envlog[1].called /\ envlog[1].stt = "raise"
    /\ envlog[2].called /\ envlog[2].stt = "ok" /\ envlog[2].text = <<>>
    /\ all_results = <<>>

\* C4: every record's 'words' equals the number of whitespace-separated
\* tokens of its transcript.
C4_WordCountConsistency ==
    \A i \in DOMAIN all_results :
        all_results[i].metadata.words = WhitespaceTokens(all_results[i].transcript)

\* C5: a feed with zero entries, or whose latest entry has no audio
\* enclosure, gets no transcription call and no record, and no exception
\* leaves process_feed.
C5_EmptyFeedHandling ==
    \A i \in DOMAIN envlog :
        (envlog[i].read \in {"no_entries", "no_enclosure", "candidate"}
            /\ ~envlog[i].audio)
        => /\ ~envlog[i].called
           /\ ~Succeeded(i)
           /\ (~CollectionDone => raised = NoException)

\* C6: an empty result stops main with no payload and no dispatch call; a
\* dispatch call happens only after the whole collection completed with at
\* least one record.
C6_EmptyResultStops ==
    /\ (CollectionDone /\ all_results = <<>>) =>
          /\ pc = "done"
          /\ payload = None
          /\ posts = <<>>
          /\ raised = NoException
    /\ pc = "send" => all_results # <<>>
    /\ posts # <<>> =>
          /\ CollectionDone
          /\ index = Len(feeds)
          /\ Len(envlog) = Len(feeds)
          /\ all_results # <<>>

\* every feed was handled, none gave a record, and main has stopped
C6_Witness ==
    /\ pc = "done"
    /\ Len(feeds) = 2
    /\ index = 2
    /\ all_results = <<>>
    /\ "no_transcripts" \in logged
    /\ posts = <<>>

\* C7: a run that dispatches makes exactly one outbound call, and its body
\* is {"transcripts": [t1..tn]}: the only key, one text per record, in the
\* order of the result set.
C7_PayloadShape ==
    /\ Len(posts) <= 1
    /\ (pc \in {"done", "raised"} /\ all_results # <<>>) => Len(posts) = 1
    /\ \A p \in DOMAIN posts :
          /\ DOMAIN posts[p] = {"transcripts"}
          /\ Len(posts[p].transcripts) = Len(all_results)
          /\ \A i \in DOMAIN all_results :
                posts[p].transcripts[i] = all_results[i].transcript

\* a dispatched payload of two different texts
C7_Witness ==
    /\ Len(posts) = 1
    /\ Len(all_results) = 2
    /\ all_results[1].transcript # all_results[2].transcript
    /\ posts[1].transcripts = <<all_results[1].transcript, all_results[2].transcript>>

\* C8: once the outbound call has been made, no exception leaves
\* send_payload and the run completes normally, whatever the call did.
C8_DispatchFireAndLog ==
    posts # <<>> =>
        /\ raised = NoException
        /\ pc # "raised"

\* C9: with the API key missing, no feed is handled as a per-feed skip and
\* the run does not complete normally: it aborts with an exception.
C9_MissingKeyFatal ==
    ~apiKey =>
        /\ \A i \in DOMAIN envlog : envlog[i].read # "no_key"
        /\ index = 0
        /\ pc # "done"

\* C10: a store_podcast_transcript call never raises, issues at most one
\* create call, returns the generated identifier when the create succeeds
\* and None otherwise.
C10_StoreNeverRaises ==
    lastStore.called =>
        /\ ~lastStore.raised
        /\ lastStore.creates <= 1
        /\ (lastStore.created =>
               /\ lastStore.ret = lastStore.id
               /\ lastStore.ret # None
               /\ lastStore.creates = 1
               /\ lastStore.ret = NewId(Len(objects)))
        /\ (~lastStore.created => lastStore.ret = None)

\* a call that failed after one that stored an object: the run went on
C10_Witness ==
    /\ Len(objects) = 1
    /\ lastStore.called
    /\ ~lastStore.created
    /\ lastStore.ret = None

\* the number of collections of that name
CountOf(colls, name) == Cardinality({i \in DOMAIN colls : colls[i].name = name})

\* C11: when a call of ensure_schema_exists that returned normally is
\* followed by a second call, from whatever collections the store held
\* before, the store then holds exactly one Email and one PodcastTranscript
\* collection, the second call makes no create call, leaves the collections
\* as they were and raises only if the store's list_all itself failed; and
\* no call ever creates a name the store already had or changes a
\* collection that was there.
C11_IdempotentSchema ==
    /\ \A i \in DOMAIN ensureLog :
          LET c == ensureLog[i]
          IN /\ (i > 1 => c.before = ensureLog[i-1].collections)
             /\ \A k \in DOMAIN c.before : c.collections[k] = c.before[k]
             /\ \A k \in DOMAIN c.creates : c.creates[k] \notin list_all(c.before)
             /\ \A k \in 1..Len(SchemaNames) :
                   CountOf(c.collections, SchemaNames[k]) <= 1
    /\ \A i \in DOMAIN ensureLog \ {1} :
          LET a == ensureLog[i-1]
              b == ensureLog[i]
          IN ~a.raised =>
                /\ b.creates = <<>>
                /\ b.collections = b.before
                /\ (b.raised <=> ~b.listed)
                /\ \A k \in 1..Len(SchemaNames) :
                      CountOf(b.collections, SchemaNames[k]) = 1
    /\ (ensureLog # <<>> => collections = ensureLog[Len(ensureLog)].collections)

\* the first call created PodcastTranscript next to an Email collection of
\* another layout, the second call found both and did nothing
C11_Witness ==
    /\ Len(ensureLog) = 2
    /\ ensureLog[1].creates = <<"PodcastTranscript">>
    /\ ~ensureLog[1].raised
    /\ [name |-> "Email", layout |-> "legacy"] \in
          {ensureLog[1].before[k] : k \in DOMAIN ensureLog[1].before}
    /\ ensureLog[2].listed
    /\ ensureLog[2].creates = <<>>
    /\ ~ensureLog[2].raised
    /\ collections = ensureLog[1].collections

\* C12 (state part): the feeds handled so far are the input positions
\* 1, 2, ... in order, each once; at most one feed is in flight, the one at
\* the loop's position, and it is finished before the next one starts;
\* between two iterations process_feed's locals are gone, so that only the
\* accumulated list (next to the loop position) is carried over; and
\* collection returns only after the last feed.
C12_OneFeedAtATime ==
    /\ index <= Len(feeds)
    /\ Len(envlog) = (IF pc = "transcribing" THEN index + 1 ELSE index)
    /\ \A i \in DOMAIN envlog :
          /\ envlog[i].pos = i
          /\ envlog[i].feed = feeds[i]
          /\ (i <= index /\ envlog[i].read = "candidate") => envlog[i].called
    /\ pc = "transcribing" =>
          /\ cur.feed_url = feeds[index + 1]
          /\ envlog[index + 1].read = "candidate"
          /\ ~envlog[index + 1].called
    /\ pc # "transcribing" => cur = NoCur
    /\ CollectionDone => index = Len(feeds)

\* C12: once collect_transcripts has started it always returns, having
\* handled every feed exactly once in input order and one at a time.
C12_RunToCompletion ==
    /\ []C12_OneFeedAtATime
    /\ (pc = "loop") ~> (CollectionDone /\ Len(envlog) = Len(feeds))

\* collection has returned after two feeds that were both read and transcribed
C12_Witness ==
    /\ CollectionDone
    /\ Len(feeds) = 2
    /\ Len(envlog) = 2
    /\ envlog[1].called /\ envlog[2].called
    /\ envlog[1].pos = 1 /\ envlog[2].pos = 2

====
